---- MODULE Spec2Model ----
(***************************************************************************)
(* A model of molgenis/client.py: the Session object (login, logout and    *)
(* the token header every request carries) and the query-string builder    *)
(* Session._build_api_url that Session.get feeds.                          *)
(*                                                                         *)
(* Python strings are sequences of one-character strings, so that          *)
(* str.split, str.join, str.format and + are computed character by         *)
(* character.  A Python value is a record tagged with its type:            *)
(*   [kind |-> "none"]                       None                          *)
(*   [kind |-> "str",  s |-> <<"a", ",">>]   a str                         *)
(*   [kind |-> "int",  n |-> 5]              an int                        *)
(*   [kind |-> "list", items |-> <<v, w>>]   a list of values              *)
(*   [kind |-> "omitted"]                    a keyword argument the caller *)
(*                                           of get() left out             *)
(***************************************************************************)
EXTENDS Integers, Sequences, FiniteSets, TLC

VARIABLES
    args,       \* SpecBuild: the keyword arguments one get() call was given
    pc,         \* SpecBuild: "call" before get() ran, "done" after
    ret,        \* SpecBuild: what get() got back from _build_api_url
    given,      \* SpecConc: per call, the base_url and possible_options its caller passed
    frames,     \* SpecConc: per call, the locals of its _build_api_url activation
    token,      \* SpecSession: Session._token
    sent,       \* SpecSession: the headers of the request sent last
    history     \* SpecSession: the operations so far, each with its response

vars == <<args, pc, ret, given, frames, token, sent, history>>

-----------------------------------------------------------------------------
(* Bounds of the model.                                                    *)

\* the longest comma-separated list drawn for attributes and expand
MaxNames == 2
\* the number of concurrent _build_api_url calls
MaxCalls == 2
\* the number of Session operations in one run
MaxOps == 3

-----------------------------------------------------------------------------
(* Python values.                                                          *)

None == [kind |-> "none"]
Omitted == [kind |-> "omitted"]
StrV(s) == [kind |-> "str", s |-> s]
IntV(n) == [kind |-> "int", n |-> n]
ListV(items) == [kind |-> "list", items |-> items]

\* bool(value): None, 0, '' and [] are falsy
Truthy(v) ==
    CASE v.kind = "none" -> FALSE
      [] v.kind = "str"  -> Len(v.s) > 0
      [] v.kind = "int"  -> v.n # 0
      [] v.kind = "list" -> Len(v.items) > 0

DigitChar(d) == <<"0", "1", "2", "3", "4", "5", "6", "7", "8", "9">>[d + 1]

RECURSIVE Digits(_)
Digits(n) == IF n < 10 THEN <<DigitChar(n)>>
             ELSE Digits(n \div 10) \o <<DigitChar(n % 10)>>

\* str(int)
IntToStr(n) == IF n < 0 THEN <<"-">> \o Digits(0 - n) ELSE Digits(n)

\* sep.join(parts)
RECURSIVE Join(_, _)
Join(parts, sep) ==
    IF Len(parts) = 0 THEN <<>>
    ELSE IF Len(parts) = 1 THEN parts[1]
    ELSE parts[1] \o sep \o Join(Tail(parts), sep)

\* s.split(sep) for a one-character sep: n separators give n + 1 parts
RECURSIVE SplitFrom(_, _, _)
SplitFrom(s, sep, cur) ==
    IF Len(s) = 0 THEN <<cur>>
    ELSE IF Head(s) = sep THEN <<cur>> \o SplitFrom(Tail(s), sep, <<>>)
    ELSE SplitFrom(Tail(s), sep, Append(cur, Head(s)))

Split(s, sep) == SplitFrom(s, sep, <<>>)

\* x in list
InList(x, list) == \E i \in 1..Len(list) : list[i] = x

\* repr(value), for strings without quotes or backslashes
RECURSIVE Repr(_)
Repr(v) ==
    CASE v.kind = "none" -> <<"N", "o", "n", "e">>
      [] v.kind = "int"  -> IntToStr(v.n)
      [] v.kind = "str"  -> <<"'">> \o v.s \o <<"'">>
      [] v.kind = "list" ->
            <<"[">> \o Join([i \in 1..Len(v.items) |-> Repr(v.items[i])], <<",", " ">>) \o <<"]">>

\* '{}'.format(value): str(value)
Str(v) == IF v.kind = "str" THEN v.s ELSE Repr(v)

\* the text of an option key
KeyChars(option) ==
    CASE option = "q"     -> <<"q">>
      [] option = "attrs" -> <<"a", "t", "t", "r", "s">>
      [] option = "num"   -> <<"n", "u", "m">>
      [] option = "start" -> <<"s", "t", "a", "r", "t">>
      [] option = "sort"  -> <<"s", "o", "r", "t">>

-----------------------------------------------------------------------------
(* Session._build_api_url                                                  *)

\* one iteration of the loop either raises or appends tokens to operators
Raise(exc) == [raise |-> exc, tokens |-> <<>>]
Emit(tok) == [raise |-> "", tokens |-> <<tok>>]
Skip == [raise |-> "", tokens |-> <<>>]

\* type(option_value) == list
IsList(option_value) == option_value.kind = "list"

\* mutant: the guard without the truthiness test, if option == 'q'
QueryGuardKeyOnly(option, option_value) == option = "q"

\* if option == 'q' and option_value
QueryGuard(option, option_value) == option = "q" /\ Truthy(option_value)

\* '{}={}'.format(option, option_value)
FormatOption(option, option_value) == KeyChars(option) \o <<"=">> \o Str(option_value)

\* the q branch
QueryStep(option, option_value) ==
    IF IsList(option_value)
    THEN Raise("TypeError")
    ELSE Emit(FormatOption(option, option_value))

\* mutant: the sort branch without its test of the order
SortStepColumnOnly(option_value) ==
    IF Truthy(option_value.items[1])
    THEN [raise |-> "", tokens |-> << <<"s", "o", "r", "t", "=">> \o option_value.items[1].s >>]
    ELSE [raise |-> "", tokens |-> <<>>]

\* the sort branch; 'sort=' + x raises TypeError unless x is a str
SortStep(option_value) ==
    LET column == option_value.items[1]
        order == option_value.items[2]
    IN  IF Truthy(column)
        THEN IF Truthy(order)
             THEN Emit(<<"s", "o", "r", "t", "=">> \o Str(column) \o <<":">> \o Str(order))
             ELSE IF column.kind = "str"
                  THEN Emit(<<"s", "o", "r", "t", "=">> \o column.s)
                  ELSE Raise("TypeError")
        ELSE Skip

\* mutant: every attribute is marked, listed in expand or not
ExpandListedEvery(attrs_operator, expands) ==
    [i \in 1..Len(attrs_operator) |-> attrs_operator[i] \o <<"(", "*", ")">>]

\* [operator+'(*)' if operator in expands else operator for operator in attrs_operator]
ExpandListed(attrs_operator, expands) ==
    [i \in 1..Len(attrs_operator) |->
        IF InList(attrs_operator[i], expands)
        THEN attrs_operator[i] \o <<"(", "*", ")">>
        ELSE attrs_operator[i]]

\* mutant: the expand names without the closing '*'
ExpandAllNoWildcard(expands) ==
    [i \in 1..Len(expands) |-> expands[i] \o <<"(", "*", ")">>]

\* [attr+'(*)' for attr in expands] followed by '*'
ExpandAll(expands) ==
    Append([i \in 1..Len(expands) |-> expands[i] \o <<"(", "*", ")">>], <<"*">>)

AttrsToken(attrs_operator) == <<"a", "t", "t", "r", "s", "=">> \o Join(attrs_operator, <<",">>)

\* the attrs branch; .split exists on a str only
AttrsStep(option_value) ==
    LET attributes == option_value.items[1]
        expand == option_value.items[2]
    IN  IF Truthy(attributes)
        THEN IF attributes.kind # "str" THEN Raise("AttributeError")
             ELSE IF Truthy(expand)
                  THEN IF expand.kind # "str" THEN Raise("AttributeError")
                       ELSE Emit(AttrsToken(ExpandListed(Split(attributes.s, ","),
                                                         Split(expand.s, ","))))
                  ELSE Emit(AttrsToken(Split(attributes.s, ",")))
        ELSE IF Truthy(expand)
             THEN IF expand.kind # "str" THEN Raise("AttributeError")
                  ELSE Emit(AttrsToken(ExpandAll(Split(expand.s, ","))))
             ELSE Skip

\* the page size that is left out of the URL
SuppressedNum == 100

\* mutant: a test against None in place of the truthiness test
GenericGuardNotNone(option, option_value) ==
    /\ option_value.kind # "none"
    /\ ~(option = "num" /\ option_value.kind = "int" /\ option_value.n = SuppressedNum)

\* elif option_value and not (option == 'num' and option_value == 100)
GenericGuard(option, option_value) ==
    /\ Truthy(option_value)
    /\ ~(option = "num" /\ option_value.kind = "int" /\ option_value.n = SuppressedNum)

\* the body of the for loop, for one option
OptionStep(option, option_value) ==
    IF QueryGuard(option, option_value) THEN QueryStep(option, option_value)
    ELSE IF option = "sort" THEN SortStep(option_value)
    ELSE IF option = "attrs" THEN AttrsStep(option_value)
    ELSE IF GenericGuard(option, option_value) THEN Emit(FormatOption(option, option_value))
    ELSE Skip

\* mutant: the formatted url returned as it is
FinishUrlBare(base_url, operators) == base_url \o <<"?">> \o Join(operators, <<"&">>)

\* url = '{}?{}'.format(base_url, '&'.join(operators)), without the '?' when nothing follows it
FinishUrl(base_url, operators) ==
    LET url == base_url \o <<"?">> \o Join(operators, <<"&">>)
    IN  IF url = base_url \o <<"?">> THEN base_url ELSE url

\* what a call hands back: the URL, or the exception it raised; operators is the
\* local list at that moment
Returned(base_url, operators) ==
    [raised |-> "", url |-> FinishUrl(base_url, operators), operators |-> operators]
Raised(exc, operators) == [raised |-> exc, url |-> <<>>, operators |-> operators]

\* the for loop from its i-th option on; possible_options is the dict in iteration
\* order, a sequence of <<key, value>>
RECURSIVE BuildFrom(_, _, _, _)
BuildFrom(base_url, possible_options, i, operators) ==
    IF i > Len(possible_options) THEN Returned(base_url, operators)
    ELSE LET step == OptionStep(possible_options[i][1], possible_options[i][2])
         IN  IF step.raise # "" THEN Raised(step.raise, operators)
             ELSE BuildFrom(base_url, possible_options, i + 1, operators \o step.tokens)

BuildApiUrl(base_url, possible_options) == BuildFrom(base_url, possible_options, 1, <<>>)

-----------------------------------------------------------------------------
(* Session.get, up to the request it sends                                 *)

\* the url the Session was constructed with
SessionUrl == <<"h", "/", "a", "p", "i", "/">>

\* the num and the start that get() takes when none is passed
DefaultNum == 100
DefaultStart == 0

\* a keyword argument, or its default in get()'s signature
Arg(a, name) ==
    IF a[name].kind # "omitted" THEN a[name]
    ELSE CASE name = "num" -> IntV(DefaultNum)
           [] name = "start" -> IntV(DefaultStart)
           [] OTHER -> None

\* possible_options, in the order the dict literal inserts its keys
PossibleOptions(a) ==
    << <<"q", Arg(a, "q")>>,
       <<"attrs", ListV(<<Arg(a, "attributes"), Arg(a, "expand")>>)>>,
       <<"num", Arg(a, "num")>>,
       <<"start", Arg(a, "start")>>,
       <<"sort", ListV(<<Arg(a, "sort_column"), Arg(a, "sort_order")>>)>> >>

\* self._url + "v2/" + entity
BaseUrl(a) == SessionUrl \o <<"v", "2", "/">> \o a.entity

\* url = self._build_api_url(self._url + "v2/" + entity, possible_options)
GetUrl(a) == BuildApiUrl(BaseUrl(a), PossibleOptions(a))

-----------------------------------------------------------------------------
(* The arguments get() is called with.                                     *)

\* attribute names
Names == {<<"a">>, <<"a", "b">>}

\* the sequences over S of length at most n
SeqsUpTo(S, n) == UNION {[1..k -> S] : k \in 0..n}

\* comma-separated name lists, '' among them
NameLists == {Join(names, <<",">>) : names \in SeqsUpTo(Names, MaxNames)}

Entities == {<<"P">>, <<"s", "_", "P">>}

\* an RSQL string, '', the two list forms of the v1 API, or nothing
Queries == {None, StrV(<<>>), StrV(<<"x", "=", "=", "1">>),
            ListV(<<>>), ListV(<<StrV(<<"x">>), StrV(<<"y">>)>>)}

\* a comma-separated string, nothing, or a Python list of names
AttributeArgs == {None} \cup {StrV(s) : s \in NameLists}
                        \cup {ListV(<<StrV(<<"a">>), StrV(<<"a", "b">>)>>)}

NumArgs == {Omitted, None, IntV(0), IntV(50), IntV(DefaultNum)}

StartArgs == {None, IntV(DefaultStart), IntV(5)}

SortColumnArgs == {None, StrV(<<>>), StrV(<<"a">>)}

SortOrderArgs == {None, StrV(<<>>), StrV(<<"a", "s", "c">>)}

GetArgs ==
    [entity : Entities, q : Queries, attributes : AttributeArgs, expand : AttributeArgs,
     num : NumArgs, start : StartArgs, sort_column : SortColumnArgs,
     sort_order : SortOrderArgs]

-----------------------------------------------------------------------------
(* SpecBuild: one get() call on arguments drawn from GetArgs.              *)

NoCall == [raised |-> "", url |-> <<>>, operators |-> <<>>]

InitBuild ==
    /\ args \in GetArgs
    /\ pc = "call"
    /\ ret = NoCall
    /\ given = <<>>
    /\ frames = <<>>
    /\ token = None
    /\ sent = <<>>
    /\ history = <<>>

\* get() builds possible_options and the url
Get ==
    /\ pc = "call"
    /\ ret' = GetUrl(args)
    /\ pc' = "done"
    /\ UNCHANGED <<args, given, frames, token, sent, history>>

NextBuild == Get

SpecBuild == InitBuild /\ [][NextBuild]_vars

-----------------------------------------------------------------------------
(* Vocabulary of the claims about one get() call.                          *)

Done == pc = "done"

\* the call handed back a URL
GotUrl == Done /\ ret.raised = ""

\* a numeric option was passed and is not None
PresentInt(v) == v.kind = "int"

\* a string option is given: passed, a string, and not ''
GivenStr(v) == v.kind = "str" /\ Len(v.s) > 0

\* a string option is empty: None or ''
EmptyStr(v) == v.kind = "none" \/ (v.kind = "str" /\ Len(v.s) = 0)

\* the key of a token: what precedes its first '='
TokenKey(tok) == Split(tok, "=")[1]

\* the value of a token: what follows its first '='
TokenValue(tok) == SubSeq(tok, Len(TokenKey(tok)) + 2, Len(tok))

\* the emitted tokens with a key, in order
TokensOf(option) == SelectSeq(ret.operators, LAMBDA t : TokenKey(t) = KeyChars(option))

\* the place of a key in the order q, attrs, num, start, sort
KeyRank(key) ==
    CHOOSE r \in 1..5 : KeyChars(<<"q", "attrs", "num", "start", "sort">>[r]) = key

\* C1: a call that returns gives the base URL alone when no token was emitted, and
\* otherwise the base URL, '?', and the emitted tokens joined by '&'; the tokens
\* come in the order q, attrs, num, start, sort, at most one of each.
C1_UrlIsBaseThenJoinedTokensInOrder ==
    GotUrl =>
        /\ \A i \in 1..Len(ret.operators) : \A j \in 1..Len(ret.operators) :
              i < j => KeyRank(TokenKey(ret.operators[i])) < KeyRank(TokenKey(ret.operators[j]))
        /\ IF Len(ret.operators) = 0
           THEN ret.url = BaseUrl(args)
           ELSE ret.url = BaseUrl(args) \o <<"?">> \o Join(ret.operators, <<"&">>)

\* a call that emitted all five tokens
C1_Witness ==
    /\ GotUrl
    /\ Len(ret.operators) = 5
    /\ args.entity = <<"P">>
    /\ ret.url = <<"h", "/", "a", "p", "i", "/", "v", "2", "/", "P", "?",
                   "q", "=", "x", "=", "=", "1", "&",
                   "a", "t", "t", "r", "s", "=", "a", "&",
                   "n", "u", "m", "=", "5", "0", "&",
                   "s", "t", "a", "r", "t", "=", "5", "&",
                   "s", "o", "r", "t", "=", "a", ":", "a", "s", "c">>

\* C2 (as claimed): num=<value> is emitted exactly when num is present and is not
\* 100, and the URL for num=100 is the URL for num left out.
C2_NumEmittedIffPresentAndNotDefault ==
    GotUrl =>
        /\ TokensOf("num") = IF PresentInt(args.num) /\ args.num.n # 100
                             THEN << <<"n", "u", "m", "=">> \o IntToStr(args.num.n) >>
                             ELSE <<>>
        /\ args.num = IntV(100) => ret = GetUrl([args EXCEPT !.num = Omitted])

\* C3 (as claimed): every list given as the query raises and no URL comes back; a
\* given string is emitted verbatim as q=<value>.
C3_ListQueryAlwaysRaises ==
    Done =>
        /\ args.q.kind = "list" => ret.raised = "TypeError" /\ ret.url = <<>>
        /\ GivenStr(args.q) =>
              Len(ret.operators) > 0 /\ ret.operators[1] = <<"q", "=">> \o args.q.s

\* C3 (amended): a list with at least one element raises TypeError and no URL
\* comes back; a given string is emitted verbatim as the first token; an empty
\* list, like '' and None, emits no q token and does not raise TypeError.
C3_NonEmptyListQueryRaises ==
    Done =>
        /\ (args.q.kind = "list" /\ Len(args.q.items) > 0) =>
              ret.raised = "TypeError" /\ ret.url = <<>> /\ ret.operators = <<>>
        /\ GivenStr(args.q) =>
              TokensOf("q") = << <<"q", "=">> \o args.q.s >> /\ ret.operators[1] = <<"q", "=">> \o args.q.s
        /\ (args.q = ListV(<<>>) \/ EmptyStr(args.q)) =>
              TokensOf("q") = <<>> /\ ret.raised # "TypeError"

\* a call with the query ['x', 'y'] that raised
C3_Witness ==
    /\ Done
    /\ args.q = ListV(<<StrV(<<"x">>), StrV(<<"y">>)>>)
    /\ ret.raised = "TypeError"

\* the names of a comma-separated option
NamesOf(v) == Split(v.s, ",")

\* C4: with attributes given, one attrs token is emitted; its comma-separated
\* list has as many entries as attributes has names, entry i being name i with
\* (*) appended if expand is given and lists that name, and name i otherwise;
\* with expand empty the token is attrs=<attributes>.
C4_AttrsKeepsNamesAndMarksExpanded ==
    (GotUrl /\ GivenStr(args.attributes)) =>
        /\ Len(TokensOf("attrs")) = 1
        /\ LET entries == Split(TokenValue(TokensOf("attrs")[1]), ",")
               names == NamesOf(args.attributes)
           IN  /\ Len(entries) = Len(names)
               /\ \A i \in 1..Len(names) :
                     entries[i] = IF GivenStr(args.expand) /\ InList(names[i], NamesOf(args.expand))
                                  THEN names[i] \o <<"(", "*", ")">>
                                  ELSE names[i]
        /\ EmptyStr(args.expand) =>
              TokensOf("attrs")[1] = <<"a", "t", "t", "r", "s", "=">> \o args.attributes.s

\* attributes 'a,ab' with expand 'ab' gave attrs=a,ab(*)
C4_Witness ==
    /\ GotUrl
    /\ args.attributes = StrV(<<"a", ",", "a", "b">>)
    /\ args.expand = StrV(<<"a", "b">>)
    /\ TokensOf("attrs") = << <<"a", "t", "t", "r", "s", "=", "a", ",", "a", "b", "(", "*", ")">> >>

\* C5: with attributes empty and expand given, one attrs token is emitted: every
\* expand name with (*) appended, in order, and then '*'; with both empty no
\* attrs token is emitted.
C5_ExpandOnlyAddsWildcard ==
    GotUrl =>
        /\ (EmptyStr(args.attributes) /\ GivenStr(args.expand)) =>
              /\ Len(TokensOf("attrs")) = 1
              /\ LET entries == Split(TokenValue(TokensOf("attrs")[1]), ",")
                     names == NamesOf(args.expand)
                 IN  /\ Len(entries) = Len(names) + 1
                     /\ \A i \in 1..Len(names) : entries[i] = names[i] \o <<"(", "*", ")">>
                     /\ entries[Len(entries)] = <<"*">>
        /\ (EmptyStr(args.attributes) /\ EmptyStr(args.expand)) => TokensOf("attrs") = <<>>

\* expand 'a,ab' without attributes gave attrs=a(*),ab(*),*
C5_Witness ==
    /\ GotUrl
    /\ args.attributes = None
    /\ args.expand = StrV(<<"a", ",", "a", "b">>)
    /\ TokensOf("attrs") = << <<"a", "t", "t", "r", "s", "=", "a", "(", "*", ")", ",",
                                "a", "b", "(", "*", ")", ",", "*">> >>

\* C6: sort=<column>:<order> is emitted when both are given, sort=<column> when
\* only the column is, and no sort token when the column is not given, whatever
\* the order.
C6_SortTokenFollowsColumnAndOrder ==
    GotUrl =>
        TokensOf("sort") =
            IF GivenStr(args.sort_column)
            THEN IF GivenStr(args.sort_order)
                 THEN << <<"s", "o", "r", "t", "=">> \o args.sort_column.s \o <<":">> \o args.sort_order.s >>
                 ELSE << <<"s", "o", "r", "t", "=">> \o args.sort_column.s >>
            ELSE <<>>

\* column 'a' with order 'asc' gave sort=a:asc
C6_Witness ==
    /\ GotUrl
    /\ args.sort_column = StrV(<<"a">>)
    /\ args.sort_order = StrV(<<"a", "s", "c">>)
    /\ TokensOf("sort") = << <<"s", "o", "r", "t", "=", "a", ":", "a", "s", "c">> >>

\* C7: start=<value> is emitted exactly when start is present and is not 0.
C7_StartEmittedIffNonZero ==
    GotUrl =>
        TokensOf("start") = IF PresentInt(args.start) /\ args.start.n # 0
                            THEN << <<"s", "t", "a", "r", "t", "=">> \o IntToStr(args.start.n) >>
                            ELSE <<>>

\* start 5 gave start=5
C7_Witness ==
    /\ GotUrl
    /\ args.start = IntV(5)
    /\ TokensOf("start") = << <<"s", "t", "a", "r", "t", "=", "5">> >>

\* C8 (as claimed): a call raises only for a list given as the query, and then
\* the error is the query-format error; every other call returns a URL, and a
\* call whose options are all absent or empty returns the base URL.
C8_OnlyListQueryRaises ==
    Done =>
        /\ ret.raised # "" => (ret.raised = "TypeError" /\ args.q.kind = "list")
        /\ args.q.kind # "list" => ret.raised = ""
        /\ (/\ EmptyStr(args.q) /\ EmptyStr(args.attributes) /\ EmptyStr(args.expand)
            /\ args.num.kind \in {"none", "omitted"} /\ args.start.kind \in {"none", "omitted"}
            /\ EmptyStr(args.sort_column) /\ EmptyStr(args.sort_order))
              => ret.url = BaseUrl(args)

-----------------------------------------------------------------------------
(* SpecConc: MaxCalls threads inside _build_api_url at once, each on its    *)
(* own arguments, one loop iteration per step.                              *)

Calls == 1..MaxCalls

Plain ==
    [entity |-> <<"P">>, q |-> None, attributes |-> None, expand |-> None,
     num |-> Omitted, start |-> Omitted, sort_column |-> None, sort_order |-> None]

\* the argument sets the concurrent calls draw from
ConcArgs ==
    { Plain,
      [Plain EXCEPT !.q = StrV(<<"x", "=", "=", "1">>),
                    !.attributes = StrV(<<"a", ",", "a", "b">>),
                    !.expand = StrV(<<"a", "b">>),
                    !.num = IntV(50), !.start = IntV(5),
                    !.sort_column = StrV(<<"a">>), !.sort_order = StrV(<<"a", "s", "c">>)],
      [Plain EXCEPT !.attributes = StrV(<<"a">>),
                    !.q = ListV(<<StrV(<<"x">>), StrV(<<"y">>)>>)],
      [Plain EXCEPT !.entity = <<"s", "_", "P">>,
                    !.expand = StrV(<<"a", ",", "a", "b">>),
                    !.sort_column = StrV(<<"a">>)] }

\* what a caller passes: the two objects the call holds references to
Passed(a) == [base_url |-> BaseUrl(a), possible_options |-> PossibleOptions(a)]

\* mutant: one operators list that every activation appends to
SharedOperators(c) == 1

\* operators = [] makes a list of the activation's own
OperatorsOf(c) == c

InitConc ==
    /\ given \in [Calls -> {Passed(a) : a \in ConcArgs}]
    /\ frames = [c \in Calls |->
                    [pc |-> "ready", i |-> 0, operators |-> <<>>, passed |-> given[c],
                     overlapped |-> FALSE, ret |-> NoCall]]
    /\ args = Plain
    /\ pc = "conc"
    /\ ret = NoCall
    /\ token = None
    /\ sent = <<>>
    /\ history = <<>>

\* another call is between its first and its last statement
OthersRunning(c) == \E d \in Calls \ {c} : frames[d].pc = "loop"

\* the call starts: operators = []
Enter(c) ==
    /\ frames[c].pc = "ready"
    /\ frames' = [frames EXCEPT ![c].pc = "loop", ![c].i = 1,
                                ![OperatorsOf(c)].operators = <<>>]
    /\ UNCHANGED <<args, pc, ret, given, token, sent, history>>

\* one iteration of the for loop: the option's branch appends or raises
Iterate(c) ==
    /\ frames[c].pc = "loop"
    /\ frames[c].i <= Len(given[c].possible_options)
    /\ LET option == given[c].possible_options[frames[c].i]
           step == OptionStep(option[1], option[2])
           operators == frames[OperatorsOf(c)].operators
       IN  frames' =
              IF step.raise # ""
              THEN [frames EXCEPT ![c].pc = "raised",
                                  ![c].ret = Raised(step.raise, operators),
                                  ![c].overlapped = @ \/ OthersRunning(c)]
              ELSE [[frames EXCEPT ![OperatorsOf(c)].operators = operators \o step.tokens]
                            EXCEPT ![c].i = @ + 1,
                                   ![c].overlapped = @ \/ OthersRunning(c)]
    /\ UNCHANGED <<args, pc, ret, given, token, sent, history>>

\* the loop is over: the url is formatted and returned
Return(c) ==
    /\ frames[c].pc = "loop"
    /\ frames[c].i > Len(given[c].possible_options)
    /\ frames' = [frames EXCEPT ![c].pc = "returned",
                                ![c].ret = Returned(given[c].base_url,
                                                    frames[OperatorsOf(c)].operators)]
    /\ UNCHANGED <<args, pc, ret, given, token, sent, history>>

NextConc == \E c \in Calls : Enter(c) \/ Iterate(c) \/ Return(c)

SpecConc == InitConc /\ [][NextConc]_vars

Finished(c) == frames[c].pc \in {"returned", "raised"}

\* C9: whatever the interleaving, a finished call has the result the same call
\* has when it runs alone, and the base URL and options each caller passed are
\* what it passed.
C9_ConcurrentCallsMatchSequential ==
    \A c \in Calls :
        /\ given[c] = frames[c].passed
        /\ Finished(c) =>
              frames[c].ret = BuildApiUrl(frames[c].passed.base_url,
                                          frames[c].passed.possible_options)

\* two calls on different arguments, both finished, each having run while the
\* other was in its loop, one of them with all five tokens
C9_Witness ==
    /\ Finished(1) /\ Finished(2)
    /\ given[1] # given[2]
    /\ frames[1].overlapped /\ frames[2].overlapped
    /\ frames[1].ret.raised = "" /\ Len(frames[1].ret.operators) = 5
    /\ frames[2].ret.raised = "" /\ Len(frames[2].ret.operators) = 2

-----------------------------------------------------------------------------
(* SpecSession: the token a Session holds and sends.                        *)

\* the tokens the server hands out
Tokens == {<<"t", "1">>, <<"t", "2">>}

\* the status codes of the responses
Statuses == {200, 401}

\* the operations that send the token header of _get_token_header, bare or with
\* a Content-Type beside it
TokenOps == {"get_by_id", "get", "add", "delete", "get_entity_meta_data",
             "get_attribute_meta_data", "upload_zip"}
TokenJsonOps == {"add_all", "update_one", "delete_list"}

\* self._token = None
InitSession ==
    /\ token = None
    /\ sent = <<>>
    /\ history = <<>>
    /\ args = Plain
    /\ pc = "session"
    /\ ret = NoCall
    /\ given = <<>>
    /\ frames = <<>>

\* {"x-molgenis-token": self._token}
GetTokenHeader == token

\* a request without an x-molgenis-token header
NoHeader == [kind |-> "absent"]

\* the request an operation sent: the value of its x-molgenis-token header, or
\* NoHeader when it carries none, and the number of operations before it
Request(header) == <<[header |-> header, after |-> Len(history)]>>

Event(op, status, tok) == [op |-> op, status |-> status, token |-> tok]

\* login: if response.status_code == 200: self._token = response.json()["token"]
TokenAfterLogin(status, tok) == IF status = 200 THEN StrV(tok) ELSE token

\* mutant: logout forgets the token whatever the response
TokenAfterLogoutAlways(status) == None

\* logout: if response.status_code == 200: self._token = None
TokenAfterLogout(status) == IF status = 200 THEN None ELSE token

Login(status, tok) ==
    /\ Len(history) < MaxOps
    /\ sent' = Request(NoHeader)
    /\ token' = TokenAfterLogin(status, tok)
    /\ history' = Append(history, Event("login", status, StrV(tok)))
    /\ UNCHANGED <<args, pc, ret, given, frames>>

Logout(status) ==
    /\ Len(history) < MaxOps
    /\ sent' = Request(GetTokenHeader)
    /\ token' = TokenAfterLogout(status)
    /\ history' = Append(history, Event("logout", status, None))
    /\ UNCHANGED <<args, pc, ret, given, frames>>

\* every other operation sends the header and leaves self._token alone
Operation(op, status) ==
    /\ Len(history) < MaxOps
    /\ sent' = Request(GetTokenHeader)
    /\ history' = Append(history, Event(op, status, None))
    /\ UNCHANGED <<token, args, pc, ret, given, frames>>

\* get() with a query that makes _build_api_url raise sends nothing
GetRaises ==
    /\ Len(history) < MaxOps
    /\ \E a \in ConcArgs : GetUrl(a).raised # ""
    /\ history' = Append(history, Event("get", 0, None))
    /\ UNCHANGED <<token, sent, args, pc, ret, given, frames>>

NextSession ==
    \/ \E status \in Statuses, tok \in Tokens : Login(status, tok)
    \/ \E status \in Statuses : Logout(status)
    \/ \E op \in TokenOps \cup TokenJsonOps, status \in Statuses : Operation(op, status)
    \/ GetRaises

SpecSession == InitSession /\ [][NextSession]_vars

\* the token of the latest login answered 200 with no logout answered 200 after
\* it, None when there is none
RECURSIVE TokenInForce(_)
TokenInForce(h) ==
    IF Len(h) = 0 THEN None
    ELSE LET last == h[Len(h)]
         IN  IF last.op = "login" /\ last.status = 200 THEN last.token
             ELSE IF last.op = "logout" /\ last.status = 200 THEN None
             ELSE TokenInForce(SubSeq(h, 1, Len(h) - 1))

\* C10: the stored token is the token of the latest login answered 200 that no
\* logout answered 200 has followed, None without one, and the
\* x-molgenis-token header of a request is that token as it stood when the
\* request was sent.
C10_TokenIsLatestSuccessfulLogin ==
    /\ token = TokenInForce(history)
    /\ \A k \in 1..Len(sent) :
          sent[k].header # NoHeader =>
              sent[k].header = TokenInForce(SubSeq(history, 1, sent[k].after))

\* after a login answered 200 with t1, a logout answered 401 and a get, the get
\* carried t1
C10_Witness ==
    /\ Len(history) = 3
    /\ history[1] = Event("login", 200, StrV(<<"t", "1">>))
    /\ history[2] = Event("logout", 401, None)
    /\ history[3].op = "get" /\ history[3].status = 200
    /\ sent = <<[header |-> StrV(<<"t", "1">>), after |-> 2]>>
    /\ token = StrV(<<"t", "1">>)

====
